---- MODULE Spec2Model ----
(***************************************************************************)
(* Model of the pharmaceutical route optimizer                             *)
(* (src/Prototyping/route-optimizer/route_planner.py).                     *)
(*                                                                         *)
(* Units.  Python floats are represented by scaled integers:               *)
(*   - a priority is held in tenths (priority 7.5 is 75, the depot's       *)
(*     priority 1 is 10), which is exact for the multipliers 1.0, 1.8 and  *)
(*     2.5 applied to an integer priority;                                 *)
(*   - a distance is held in decimetres;                                   *)
(*   - a score is held in thousandths (score 62.437 is 62437);             *)
(*   - a time is held in whole hours on the wall clock.                    *)
(* A float result that is not a number is the record NaN, and a call that  *)
(* raises is the record Raise, so that a comparison with NaN is false as   *)
(* in Python and an exception leaves the call.                             *)
(***************************************************************************)
EXTENDS Integers, Sequences, FiniteSets, TLC

\* ---------------------------------------------------------------- bounds
MaxPharmacies == 2      \* longest input list
MaxTime == 2            \* last wall-clock hour a call can observe
MaxCalls == 2           \* calls made on one optimizer with the same arguments
MaxReadings == 2        \* process_sensor_reading calls made on one monitor
MaxBatch == 2           \* longest list given to batch_generate_documents
MaxMedications == 2     \* longest list given to validate_shipment_compliance

\* ------------------------------------------------------------ input sets
\* pharmacy_001 and pharmacy_005 are the two emergency zones of the code.
Ids == {"pharmacy_001", "pharmacy_002", "pharmacy_005"}

\* Places: the depot (52.0375, 106.6522), "near" (52.04, 106.66),
\* "north" (54.3, 110.3); "out" is (95.0, 106.66), a latitude no map has;
\* "nan" has latitude float('nan') and "inf" latitude float('inf').
ValidLocs == {"near", "north"}
InvalidLocs == {"out", "nan", "inf"}

ValidPriorities == {3, 8}
InvalidPriorities == {15}
WindowStarts == {3, 5}
Conditions == {"clear", "rain", "snow"}

\* latitude in 1/10000 of a degree (only compared with the 52.5 threshold)
Latitude(loc) ==
    CASE loc = "depot" -> 520375
      [] loc = "near" -> 520400
      [] loc = "north" -> 543000
      [] loc = "out" -> 950000
      [] loc = "inf" -> 2000000000
      [] OTHER -> 0

Pharmacy(id, loc, priority, window_start) ==
    [id |-> id, loc |-> loc, priority |-> priority, window_start |-> window_start]

\* the value None
None == Pharmacy("None", "depot", 0, 0)

\* a float that is a number / not a number / an exception instead of a value
Num(v) == [kind |-> "num", val |-> v]
NaN == [kind |-> "nan", val |-> 0]
Raise == [kind |-> "raise", val |-> 0]

\* float('-inf'): below every score a candidate can get
NegInf == -1000000

Min(a, b) == IF a <= b THEN a ELSE b

\* ------------------------------------------------------ calculate_distance
\* The haversine distance of the code, in decimetres, tabulated over the
\* places of the model (values of the code's formula, rounded).
\* The same for the places at the edges of the map, tabulated in each
\* direction: "pole_n" (90, 0), "pole_s" (-90, 0), "am_east" (10, 179.9) and
\* "am_west" (10, -179.9) on the two sides of the antimeridian, "anti_s"
\* (-87.5, -180) and "anti_n" (87.5, 0), which are antipodes.
FarPlaces == {"pole_n", "pole_s", "am_east", "am_west", "anti_s", "anti_n"}

DistanceTableFar(a, b) ==
    CASE
         <<a, b>> = <<"depot", "pole_n">> -> 42212374
      [] <<a, b>> = <<"depot", "pole_s">> -> 157938494
      [] <<a, b>> = <<"depot", "am_east">> -> 79892724
      [] <<a, b>> = <<"depot", "am_west">> -> 80028509
      [] <<a, b>> = <<"depot", "anti_s">> -> 157071951
      [] <<a, b>> = <<"depot", "anti_n">> -> 43078917
      [] <<a, b>> = <<"near", "pole_n">> -> 42209594
      [] <<a, b>> = <<"near", "pole_s">> -> 157941274
      [] <<a, b>> = <<"near", "am_east">> -> 79887772
      [] <<a, b>> = <<"near", "am_west">> -> 80023547
      [] <<a, b>> = <<"near", "anti_s">> -> 157074368
      [] <<a, b>> = <<"near", "anti_n">> -> 43076500
      [] <<a, b>> = <<"north", "pole_n">> -> 39696589
      [] <<a, b>> = <<"north", "pole_s">> -> 160454279
      [] <<a, b>> = <<"north", "am_east">> -> 77883045
      [] <<a, b>> = <<"north", "am_west">> -> 78010521
      [] <<a, b>> = <<"north", "anti_s">> -> 159417456
      [] <<a, b>> = <<"north", "anti_n">> -> 40733412
      [] <<a, b>> = <<"pole_n", "depot">> -> 42212374
      [] <<a, b>> = <<"pole_n", "near">> -> 42209594
      [] <<a, b>> = <<"pole_n", "north">> -> 39696589
      [] <<a, b>> = <<"pole_n", "pole_s">> -> 200150868
      [] <<a, b>> = <<"pole_n", "am_east">> -> 88955941
      [] <<a, b>> = <<"pole_n", "am_west">> -> 88955941
      [] <<a, b>> = <<"pole_n", "anti_s">> -> 197370995
      [] <<a, b>> = <<"pole_n", "anti_n">> -> 2779873
      [] <<a, b>> = <<"pole_s", "depot">> -> 157938494
      [] <<a, b>> = <<"pole_s", "near">> -> 157941274
      [] <<a, b>> = <<"pole_s", "north">> -> 160454279
      [] <<a, b>> = <<"pole_s", "pole_n">> -> 200150868
      [] <<a, b>> = <<"pole_s", "am_east">> -> 111194927
      [] <<a, b>> = <<"pole_s", "am_west">> -> 111194927
      [] <<a, b>> = <<"pole_s", "anti_s">> -> 2779873
      [] <<a, b>> = <<"pole_s", "anti_n">> -> 197370995
      [] <<a, b>> = <<"am_east", "depot">> -> 79892724
      [] <<a, b>> = <<"am_east", "near">> -> 79887772
      [] <<a, b>> = <<"am_east", "north">> -> 77883045
      [] <<a, b>> = <<"am_east", "pole_n">> -> 88955941
      [] <<a, b>> = <<"am_east", "pole_s">> -> 111194927
      [] <<a, b>> = <<"am_east", "am_west">> -> 219011
      [] <<a, b>> = <<"am_east", "anti_s">> -> 108415058
      [] <<a, b>> = <<"am_east", "anti_n">> -> 91735810
      [] <<a, b>> = <<"am_west", "depot">> -> 80028509
      [] <<a, b>> = <<"am_west", "near">> -> 80023547
      [] <<a, b>> = <<"am_west", "north">> -> 78010521
      [] <<a, b>> = <<"am_west", "pole_n">> -> 88955941
      [] <<a, b>> = <<"am_west", "pole_s">> -> 111194927
      [] <<a, b>> = <<"am_west", "am_east">> -> 219011
      [] <<a, b>> = <<"am_west", "anti_s">> -> 108415058
      [] <<a, b>> = <<"am_west", "anti_n">> -> 91735810
      [] <<a, b>> = <<"anti_s", "depot">> -> 157071951
      [] <<a, b>> = <<"anti_s", "near">> -> 157074368
      [] <<a, b>> = <<"anti_s", "north">> -> 159417456
      [] <<a, b>> = <<"anti_s", "pole_n">> -> 197370995
      [] <<a, b>> = <<"anti_s", "pole_s">> -> 2779873
      [] <<a, b>> = <<"anti_s", "am_east">> -> 108415058
      [] <<a, b>> = <<"anti_s", "am_west">> -> 108415058
      [] <<a, b>> = <<"anti_n", "depot">> -> 43078917
      [] <<a, b>> = <<"anti_n", "near">> -> 43076500
      [] <<a, b>> = <<"anti_n", "north">> -> 40733412
      [] <<a, b>> = <<"anti_n", "pole_n">> -> 2779873
      [] <<a, b>> = <<"anti_n", "pole_s">> -> 197370995
      [] <<a, b>> = <<"anti_n", "am_east">> -> 91735810
      [] <<a, b>> = <<"anti_n", "am_west">> -> 91735810
      [] OTHER -> 0

\* the pairs for which a (line 65) comes out as 1.0000000000000002, so that
\* sqrt(1 - a) (line 66) raises ValueError: math domain error
DomainError(a, b) ==
    <<a, b>> \in {<<"anti_s", "anti_n">>, <<"anti_n", "anti_s">>}

DistanceTable(a, b) ==
    CASE a = b -> 0
      [] {a, b} = {"depot", "near"} -> 6016
      [] {a, b} = {"depot", "north"} -> 3497895
      [] {a, b} = {"depot", "out"} -> 47772120
      [] {a, b} = {"near", "north"} -> 3492239
      [] {a, b} = {"near", "out"} -> 47769340
      [] {a, b} = {"north", "out"} -> 45246310
      [] OTHER -> DistanceTableFar(a, b)

\* sin(inf) raises ValueError; every operation on nan gives nan
calculate_distance(a, b) ==
    IF "inf" \in {a, b} THEN Raise
    ELSE IF DomainError(a, b) THEN Raise
    ELSE IF "nan" \in {a, b} THEN NaN
    ELSE Num(DistanceTable(a, b))

\* ------------------------------------------------- _detect_emergency_situation
\* the multiplier in tenths: 2.5, 1.8, and 1.0 for every other id
detect_emergency_situation(id) ==
    CASE id = "pharmacy_001" -> 25
      [] id = "pharmacy_005" -> 18
      [] OTHER -> 10

\* min(10, x), x in tenths
ClampUnclamped(x) == x
Clamp(x) == Min(100, x)

\* priority=min(10, pharmacy.priority * emergency_multiplier): the new value
BoostedPharmacy(p) ==
    Pharmacy(p.id, p.loc,
             Clamp((p.priority * detect_emergency_situation(p.id)) \div 10),
             p.window_start)

\* insertion of x into a list sorted by non-increasing priority, after every
\* element of the same priority (a stable sort)
RECURSIVE InsertStable(_, _)
InsertStable(s, x) ==
    IF s = <<>> THEN <<x>>
    ELSE IF Head(s).priority >= x.priority
         THEN <<Head(s)>> \o InsertStable(Tail(s), x)
         ELSE <<x>> \o s

\* the same, before every element of the same priority
RECURSIVE InsertBefore(_, _)
InsertBefore(s, x) ==
    IF s = <<>> THEN <<x>>
    ELSE IF Head(s).priority > x.priority
         THEN <<Head(s)>> \o InsertBefore(Tail(s), x)
         ELSE <<x>> \o s

RECURSIVE SortReversed(_)
SortReversed(s) ==
    IF s = <<>> THEN <<>>
    ELSE InsertBefore(SortReversed(SubSeq(s, 1, Len(s) - 1)), s[Len(s)])

\* sorted(emergency_boosted, key=lambda x: x.priority, reverse=True)
RECURSIVE SortByPriority(_)
SortByPriority(s) ==
    IF s = <<>> THEN <<>>
    ELSE InsertStable(SortByPriority(SubSeq(s, 1, Len(s) - 1)), s[Len(s)])

\* the list emergency_boosted, in input order
emergency_boosted(pharmacies) ==
    [i \in 1..Len(pharmacies) |-> BoostedPharmacy(pharmacies[i])]

apply_emergency_priority(pharmacies) ==
    SortByPriority(emergency_boosted(pharmacies))

\* ---------------------------------------------------- _calculate_weather_impact
\* in tenths: 0.1, +0.3 above latitude 52.5, +0.4 for snow, +0.2 for rain
WeatherImpactRainHeavier(weather, p) ==
    LET base == 1 + (IF p.loc # "nan" /\ Latitude(p.loc) > 525000 THEN 3 ELSE 0)
        cond == IF weather.condition = "snow" THEN 2
                ELSE IF weather.condition = "rain" THEN 4 ELSE 0
    IN  Min(base + cond, 10)

calculate_weather_impact(weather, p) ==
    LET base == 1 + (IF p.loc # "nan" /\ Latitude(p.loc) > 525000 THEN 3 ELSE 0)
        cond == IF weather.condition = "snow" THEN 4
                ELSE IF weather.condition = "rain" THEN 2 ELSE 0
    IN  Min(base + cond, 10)

\* ----------------------------------------------------- _calculate_time_urgency
\* clock is the value datetime.now() returns inside the call
TimeUrgencyEarly(p, clock) ==
    LET time_until_start == p.window_start - clock
    IN  IF time_until_start <= 3 THEN 30
        ELSE IF time_until_start <= 4 THEN 15
        ELSE 5

calculate_time_urgency(p, clock) ==
    LET time_until_start == p.window_start - clock
    IN  IF time_until_start <= 2 THEN 30
        ELSE IF time_until_start <= 4 THEN 15
        ELSE 5

\* ---------------------------------------------------- _calculate_pharmacy_score
\* in thousandths; the distance term is 100 / (distance + 1)
ScoreWithoutPriority(current, target, weather, clock) ==
    LET distance == calculate_distance(current.loc, target.loc)
    IN  IF distance.kind # "num" THEN distance
        ELSE Num((1000000000 \div (distance.val + 10000))
                 + 5000 * (10 - calculate_weather_impact(weather, target))
                 + 1000 * calculate_time_urgency(target, clock))

calculate_pharmacy_score(current, target, weather, clock) ==
    LET distance == calculate_distance(current.loc, target.loc)
    IN  IF distance.kind # "num" THEN distance
        ELSE Num((1000000000 \div (distance.val + 10000))
                 + target.priority * 1000
                 + 5000 * (10 - calculate_weather_impact(weather, target))
                 + 1000 * calculate_time_urgency(target, clock))

\* score > best_score, false when score is nan
BetterAlways(score, best) == TRUE
BetterOrEqual(score, best) == score.kind = "num" /\ score.val >= best
Better(score, best) == score.kind = "num" /\ score.val > best

\* list.remove(x): the list without its first element equal to x
RECURSIVE Remove(_, _)
RemoveNothing(s, x) == s
RemoveHead(s, x) == IF s = <<>> THEN s ELSE Tail(s)
Remove(s, x) ==
    IF s = <<>> THEN s
    ELSE IF Head(s) = x THEN Tail(s)
    ELSE <<Head(s)>> \o Remove(Tail(s), x)

\* the depot built at the start of a call (lines 80-87).  Its delivery window,
\* which no line of the code reads, is not modelled and is held at 0.
Depot == Pharmacy("depot", "depot", 10, 0)

\* ------------------------------------------------------ generate_route_report
\* What the haversine distance of the code has beyond the decimetres of
\* DistanceTable, in millimetres: depot-near is 0.601592 km, 6016 dm - 8 mm.
DistanceRemainder(a, b) ==
    CASE a = b -> 0
      [] {a, b} = {"depot", "near"} -> -8
      [] {a, b} = {"depot", "north"} -> -19
      [] {a, b} = {"depot", "out"} -> 31
      [] {a, b} = {"near", "north"} -> -30
      [] {a, b} = {"near", "out"} -> 49
      [] {a, b} = {"north", "out"} -> 17
      [] OTHER -> 0

\* an unrounded distance: dm decimetres and mm millimetres
Length(dm, mm) == [dm |-> dm, mm |-> mm]

\* the distance of a leg as the report computes it (lines 247-250)
LegDistance(start, end) ==
    Length(DistanceTable(start.loc, end.loc), DistanceRemainder(start.loc, end.loc))

\* round(x, 2) of a distance in km, in hundredths of a km
Round2(x) ==
    (x.dm \div 100) + ((100 * (x.dm % 100) + x.mm + 5000) \div 10000)

\* int((distance / base_speed) * road_condition_factor * 60), whole minutes,
\* with base_speed 60 and the factor w in tenths
DurationHighway(x, w) ==
    (x.dm \div 100000) * 10
      + ((100 * (x.dm % 100000) * 10 + x.mm * 10) \div 10000000)
DurationMin(x, w) ==
    (x.dm \div 100000) * w
      + ((100 * (x.dm % 100000) * w + x.mm * w) \div 10000000)

\* round(total_distance * 0.12, 2), in hundredths of a litre
FuelConsumption(x) ==
    12 * (x.dm \div 10000)
      + ((1200 * (x.dm % 10000) + 12 * x.mm + 500000) \div 1000000)

\* the RouteSegment of the leg from route[i] to route[i + 1] (lines 256-263);
\* weather_risk 0.1 is in tenths
RouteSegment(route, i, w) ==
    [start_pharmacy |-> route[i],
     end_pharmacy |-> route[i + 1],
     distance_km |-> Round2(LegDistance(route[i], route[i + 1])),
     estimated_duration_min |-> DurationMin(LegDistance(route[i], route[i + 1]), w),
     road_conditions |-> "paved_road",
     weather_risk |-> 1]

\* total_distance after the legs from route[i] on have been added to it
RECURSIVE TotalDistance(_, _)
TotalDistance(route, i) ==
    IF i >= Len(route) THEN Length(0, 0)
    ELSE LET leg == LegDistance(route[i], route[i + 1])
             rest == TotalDistance(route, i + 1)
         IN  Length(leg.dm + rest.dm, leg.mm + rest.mm)

\* a leg whose distance raises, or is nan, which int() refuses
LegFails(route) ==
    \E i \in 1..(Len(route) - 1) :
        calculate_distance(route[i].loc, route[i + 1].loc).kind # "num"

RaisedReport == [made |-> TRUE, raised |-> TRUE]

\* total_duration is the sum of the unrounded leg durations, each the leg's
\* distance times the same factor: the duration of the total distance
generate_route_report(route, weights) ==
    IF LegFails(route) THEN RaisedReport
    ELSE LET w == weights.paved_road
             total_distance == TotalDistance(route, 1)
         IN  [made |-> TRUE,
              raised |-> FALSE,
              total_distance_km |-> Round2(total_distance),
              total_duration_min |-> DurationMin(total_distance, w),
              pharmacy_count |-> Len(route) - 2,
              segments |-> [i \in 1..(Len(route) - 1) |-> RouteSegment(route, i, w)],
              estimated_fuel_consumption |-> FuelConsumption(total_distance)]

\* ----------------------------------------------------- _select_next_pharmacy
\* an exception leaving _select_next_pharmacy
ValueError == Pharmacy("ValueError", "depot", 0, 0)

\* the for loop of _select_next_pharmacy from candidate i on; clocks[i] is the
\* value datetime.now() returns while candidate i is scored
RECURSIVE SelectFrom(_, _, _, _, _, _, _)
SelectFrom(current, cands, weather, clocks, i, best, chosen) ==
    IF i > Len(cands) THEN chosen
    ELSE LET score == calculate_pharmacy_score(current, cands[i], weather,
                                               clocks[i])
         IN  IF score.kind = "raise" THEN ValueError
             ELSE IF Better(score, best)
             THEN SelectFrom(current, cands, weather, clocks, i + 1,
                             score.val, cands[i])
             ELSE SelectFrom(current, cands, weather, clocks, i + 1,
                             best, chosen)

select_next_pharmacy(current, cands, weather, clocks) ==
    SelectFrom(current, cands, weather, clocks, 1, NegInf, None)

\* ---------------------------------------------------- a call running alone
\* the values datetime.now() can return to n reads in a row, none before t
ClockReadings(t, n) ==
    {c \in [1..n -> t..MaxTime] : \A i, j \in 1..n : i <= j => c[i] <= c[j]}

\* the routes the while loop (lines 96-111) can return from a state where it
\* has built route, unvisited is left and the clock has last shown t
RECURSIVE RoutesFrom(_, _, _, _)
RoutesFrom(rt, unv, weather, t) ==
    IF unv = <<>> THEN {Append(rt, Depot)}
    ELSE UNION {
           LET pick == select_next_pharmacy(rt[Len(rt)], unv, weather, c)
           IN  IF pick = ValueError THEN {}
               ELSE IF pick = None THEN {Append(rt, Depot)}
               ELSE RoutesFrom(Append(rt, pick), Remove(unv, pick), weather,
                               c[Len(c)])
           : c \in ClockReadings(t, Len(unv)) }

\* the routes optimize_delivery_route(list, weather) can return when nothing
\* else runs, the call being made when the clock shows t
optimize_delivery_route(list, weather, t) ==
    IF list = <<>> THEN {<<>>}
    ELSE RoutesFrom(<<Depot>>, apply_emergency_priority(list), weather, t)

\* what the caller's list holds once _apply_emergency_priority has run: the
\* function builds new Pharmacy values into a new list and sorted() returns
\* another new list (lines 123-140), so the argument is as it was
InputListAdjustedInPlace(pharmacies) == apply_emergency_priority(pharmacies)
InputListAfterAdjust(pharmacies) == pharmacies

\* the ids _detect_emergency_situation is called with by
\* _apply_emergency_priority, in call order (lines 124-126)
LookupsOfAdjust(pharmacies) == [i \in 1..Len(pharmacies) |-> pharmacies[i].id]

\* the lookups made once a candidate has been scored: scoring makes none
\* (lines 173-198)
LookupsWithScoring(lookups, p) == Append(lookups, p.id)
LookupsAfterScoring(lookups, p) == lookups

\* route.append(depot), the route returned
RouteOpen(route, depot) == route
ReturnToDepot(route, depot) == Append(route, depot)

\* ------------------------------------------------------------------ state
VARIABLES
    pharmacies,             \* the caller's list (argument of the call)
    current_weather,        \* the caller's weather dict (argument of the call)
    now,                    \* the wall clock, as datetime.now() last returned it
    pc,                     \* "idle", "select", "finish", "returned", "raised"
    depot,                  \* local: the depot of the running call
    prioritized_pharmacies, \* local: result of _apply_emergency_priority
    route,                  \* local: the route under construction
    unvisited,              \* local: the candidates still to visit
    idx,                    \* _select_next_pharmacy: position of its for loop
    best_score,             \* _select_next_pharmacy: best score so far
    best_pharmacy,          \* _select_next_pharmacy: best candidate so far
    candidates,             \* the list given to the current or last selection
    scores,                 \* the scores computed in the current or last selection
    next_pharmacy,          \* local: what the last finished selection returned
    result,                 \* the value the last finished call returned
    urgency_seen,           \* history: <<id, urgency term>> computed in this call
    lookups,                \* history: ids given to _detect_emergency_situation
                            \* in this call
    given,                  \* history: the caller's list as it was given
    probe,                  \* arguments of a direct call of a scoring method
    answer,                 \* what the direct call returned
    report,                 \* what generate_route_report returned
    road_conditions_weights,    \* self.road_conditions_weights, in tenths
    other,                  \* the frame of a second thread's call, suspended
    running,                \* the thread that is running: 1 or 2
    sensor_readings,        \* monitor: self.sensor_readings, by sensor id
    alert_history,          \* monitor: self.alert_history
    processed,              \* history: statuses of the readings processed
    reading_result,         \* the last process_sensor_reading call and its outcome
    stats,                  \* what the last get_temperature_stats call returned
    batch_data,             \* documents: the list batch_generate_documents got
    batch_outcome,          \* documents: what batch_generate_documents did
    engine_call,            \* compliance engine: the method called and its
                            \* arguments
    engine_result,          \* compliance engine: what the call did
    calls,                  \* number of calls started on this optimizer
    first_result,           \* history: the value the first call returned
    first_clock             \* history: the clock as the first call read it first

vars == <<pharmacies, current_weather, now, pc, depot, prioritized_pharmacies,
          route, unvisited, idx, best_score, best_pharmacy, candidates, scores,
          next_pharmacy, result, urgency_seen, lookups, given, calls,
          first_result, first_clock, probe, answer, report,
          road_conditions_weights, other, running, sensor_readings,
          alert_history, processed, reading_result, stats, batch_data,
          batch_outcome, engine_call, engine_result>>

\* the state of the temperature monitor
monitor == <<sensor_readings, alert_history, processed, reading_result, stats>>

\* the state of the subsystems the route optimizer does not touch
documents == <<batch_data, batch_outcome>>
engine == <<engine_call, engine_result>>
peripheral == <<monitor, documents, engine>>

\* the variables optimize_delivery_route has no access to
aside == <<probe, answer, report, other, running, peripheral>>

locals == <<depot, prioritized_pharmacies, route, unvisited, idx, best_score,
            best_pharmacy, candidates, scores, next_pharmacy>>

\* the variables of a call of optimize_delivery_route and of its history
call_state == <<pharmacies, current_weather, now, pc, locals, result,
                urgency_seen, lookups, given, calls, first_result, first_clock>>

\* lists of at most MaxPharmacies pharmacies of the set S, with distinct ids
InputLists(S) ==
    UNION {{f \in [1..n -> S] : \A i, j \in 1..n : f[i].id = f[j].id => i = j}
           : n \in 0..MaxPharmacies}

\* pharmacies the input contract of the spec accepts
ValidPharmacies ==
    {Pharmacy(id, loc, 10 * pr, ws) :
        id \in Ids, loc \in ValidLocs, pr \in ValidPriorities, ws \in WindowStarts}

\* pharmacies the input contract rejects: a bad coordinate or a bad priority
InvalidPharmacies ==
    {Pharmacy(id, loc, 80, 3) : id \in Ids, loc \in InvalidLocs}
    \cup {Pharmacy(id, "near", 10 * pr, 3) : id \in Ids, pr \in InvalidPriorities}

\* the accepted pharmacies given together with rejected ones
MixedPharmacies ==
    {Pharmacy(id, loc, 80, 3) : id \in Ids, loc \in ValidLocs}
    \cup InvalidPharmacies

\* ------------------------------------------- PharmaceuticalTemperatureMonitor
\* (src/Prototyping/temperature-monitor/sensor_processor.py).  A temperature
\* is held in tenths of a degree: -12.0 is -120.
MedicationTypes == {"vaccines", "insulins", "biologics", "antibiotics"}

MEDICATION_TEMPERATURE_RANGES(type) ==
    CASE type = "vaccines" ->
           [min |-> 20, max |-> 80, critical_min |-> 0, critical_max |-> 100]
      [] type = "insulins" ->
           [min |-> 20, max |-> 80, critical_min |-> 0, critical_max |-> 120]
      [] type = "biologics" ->
           [min |-> -200, max |-> -150, critical_min |-> -250, critical_max |-> -100]
      [] type = "antibiotics" ->
           [min |-> 150, max |-> 250, critical_min |-> 80, critical_max |-> 300]

\* _check_temperature_compliance (lines 88-99)
ComplianceWarningInclusive(temperature, temp_range) ==
    IF temp_range.min <= temperature /\ temperature <= temp_range.max
    THEN "normal"
    ELSE IF \/ (temp_range.critical_min <= temperature
                /\ temperature <= temp_range.min)
            \/ (temp_range.max <= temperature
                /\ temperature < temp_range.critical_max)
    THEN "warning"
    ELSE "critical"

check_temperature_compliance(temperature, temp_range) ==
    IF temp_range.min <= temperature /\ temperature <= temp_range.max
    THEN "normal"
    ELSE IF \/ (temp_range.critical_min <= temperature
                /\ temperature < temp_range.min)
            \/ (temp_range.max < temperature
                /\ temperature <= temp_range.critical_max)
    THEN "warning"
    ELSE "critical"

\* a sensor_data dict: has_k says whether key k is in it
SensorData(sensor_id, temperature, medication_type) ==
    [has_sensor_id |-> sensor_id # "", sensor_id |-> sensor_id,
     has_temperature |-> temperature # 9999, temperature |-> temperature,
     has_medication_type |-> medication_type # "",
     medication_type |-> medication_type]

\* the readings the sensors send: a normal one, the insulin reading at the
\* critical limit 12.0, the biologics reading at -12.0, antibiotics below their
\* critical limit, a reading without a medication type, one of a type the
\* table does not have; and two that lack a key
SensorIds == {"sensor_1", "sensor_2"}
SensorInputs ==
    {SensorData(id, 50, "vaccines") : id \in SensorIds}
    \cup {SensorData(id, 120, "insulins") : id \in SensorIds}
    \cup {SensorData("sensor_1", -120, "biologics"),
          SensorData("sensor_2", 70, "antibiotics"),
          SensorData("sensor_1", 90, ""),
          SensorData("sensor_2", 110, "plasma"),
          SensorData("sensor_1", 9999, "vaccines"),
          SensorData("", 50, "insulins")}

\* sensor_data.get('medication_type', 'vaccines') (line 49)
medication_type_of(sensor_data) ==
    IF sensor_data.has_medication_type THEN sensor_data.medication_type
    ELSE "vaccines"

\* MEDICATION_TEMPERATURE_RANGES.get(type, ...['vaccines']) (lines 54-57)
temp_range_of(type) ==
    IF type \in MedicationTypes THEN MEDICATION_TEMPERATURE_RANGES(type)
    ELSE MEDICATION_TEMPERATURE_RANGES("vaccines")

\* sensor_data['temperature'] and sensor_data['sensor_id'] do not raise
\* KeyError (lines 50-51)
HasTemperatureOnly(sensor_data) == sensor_data.has_temperature
HasRequiredKeys(sensor_data) ==
    sensor_data.has_temperature /\ sensor_data.has_sensor_id

\* compliance_status in ['warning', 'critical'] (line 73)
AlertOnCriticalOnly(status) == status = "critical"
AlertNeeded(status) == status \in {"warning", "critical"}

\* the alert _generate_alert appends (lines 106-119); t is its timestamp
Alert(sensor_data, status, t) ==
    [sensor_id |-> sensor_data.sensor_id,
     medication_type |-> IF sensor_data.has_medication_type
                         THEN sensor_data.medication_type ELSE "unknown",
     current_temperature |-> sensor_data.temperature,
     status |-> status,
     timestamp |-> t,
     priority |-> IF status = "critical" THEN "high" ELSE "medium"]

\* no reading stored for a sensor; a stored reading (lines 65-70)
NoReading == [stored |-> FALSE, temperature |-> 0, timestamp |-> 0,
              status |-> "none", medication_type |-> "none"]
Reading(temperature, t, status, type) ==
    [stored |-> TRUE, temperature |-> temperature, timestamp |-> t,
     status |-> status, medication_type |-> type]

\* no call made yet; the monitor as __init__ leaves it (lines 30-33)
NoResult == [seq |-> 0, kind |-> "none", status |-> "none",
             sensor_data |-> SensorData("", 9999, "")]
NoStats == [made |-> FALSE]
InitMonitor ==
    /\ sensor_readings = [id \in SensorIds |-> NoReading]
    /\ alert_history = <<>>
    /\ processed = <<>>
    /\ reading_result = NoResult
    /\ stats = NoStats

\* the readings get_temperature_stats keeps: those stamped at or after the
\* cutoff (lines 149-154)
RecentWithoutCutoff(readings, cutoff) ==
    {id \in SensorIds : readings[id].stored}
recent_readings(readings, cutoff) ==
    {id \in SensorIds : readings[id].stored /\ readings[id].timestamp >= cutoff}

\* statuses.count(status) over the kept readings
StatusCount(readings, recent, status) ==
    Cardinality({id \in recent : readings[id].status = status})

RECURSIVE SumTemperatures(_, _)
SumTemperatures(readings, recent) ==
    IF recent = {} THEN 0
    ELSE LET id == CHOOSE x \in recent : TRUE
         IN  readings[id].temperature + SumTemperatures(readings, recent \ {id})

\* get_temperature_stats(hours) called when the clock shows t (lines 145-170);
\* the average is in thousandths of a degree and the compliance rate in
\* thousandths of a percent
get_temperature_stats(readings, hours, t) ==
    LET recent == recent_readings(readings, t - hours)
        n == Cardinality(recent)
    IN  IF recent = {} THEN [made |-> TRUE, empty |-> TRUE, hours |-> hours, at |-> t]
        ELSE [made |-> TRUE, empty |-> FALSE, hours |-> hours, at |-> t,
              total_readings |-> n,
              average_temperature |-> (100 * SumTemperatures(readings, recent)) \div n,
              min_temperature |->
                  CHOOSE x \in {readings[id].temperature : id \in recent} :
                      \A id \in recent : x <= readings[id].temperature,
              max_temperature |->
                  CHOOSE x \in {readings[id].temperature : id \in recent} :
                      \A id \in recent : x >= readings[id].temperature,
              compliance_rate |->
                  (100000 * StatusCount(readings, recent, "normal")) \div n,
              critical_alerts |-> StatusCount(readings, recent, "critical"),
              warning_alerts |-> StatusCount(readings, recent, "warning")]

\* ------------------------------------------- DocumentAutomation (documents)
\* what a call did: it returned a value, or an exception of some class left it
Returned(value) == [kind |-> "returned", value |-> value]
Raised(error) == [kind |-> "raise", error |-> error]
NotCalled == [kind |-> "none"]

\* the four names load_templates asks for (lines 32-39)
TemplateNames ==
    {"certificate_of_analysis", "customs_declaration", "health_certificate",
     "temperature_log"}

\* _get_default_template (lines 51-77): two names have a default template,
\* every other name gets the empty dict.  The template directory holds no
\* file, so _load_template (lines 41-49) always takes the default.
EmptyTemplate ==
    [empty |-> TRUE, document_type |-> "", required_fields |-> {},
     header |-> "", sections |-> <<>>]
get_default_template(template_name) ==
    CASE template_name = "certificate_of_analysis" ->
            [empty |-> FALSE, document_type |-> "certificate_of_analysis",
             required_fields |-> {"batch_number", "manufacturer", "test_results",
                                  "expiry_date", "approval_signature"},
             header |-> "Certificate of Analysis",
             sections |-> <<"product_info", "test_results", "approval">>]
      [] template_name = "customs_declaration" ->
            [empty |-> FALSE, document_type |-> "customs_declaration",
             required_fields |-> {"exporter", "importer", "hs_codes", "value",
                                  "weight", "purpose"},
             header |-> "Customs Declaration",
             sections |-> <<"parties", "goods_description", "valuation">>]
      [] OTHER -> EmptyTemplate

\* self.templates.get(document_type) (line 85): None for a name that is not a
\* key, which `not template` (line 86) treats as the empty dict
templates_get(document_type) ==
    IF document_type \in TemplateNames
    THEN get_default_template(document_type)
    ELSE EmptyTemplate

\* _generate_document_id (lines 221-231) without its timestamp
DocumentPrefix(document_type) ==
    CASE document_type = "certificate_of_analysis" -> "COA"
      [] document_type = "customs_declaration" -> "CD"
      [] document_type = "health_certificate" -> "HC"
      [] document_type = "temperature_log" -> "TLOG"
      [] OTHER -> "DOC"

\* the data of a document: a dict with the keys `fields`, or a value that is
\* no dict (None)
Data(fields) == [is_dict |-> TRUE, fields |-> fields]
NotADict == [is_dict |-> FALSE, fields |-> {}]

\* generate_document(document_type, data) (lines 79-112): ValueError for a
\* name without template and for missing required fields (lines 114-120),
\* TypeError when `field not in data` is asked of None.  The timestamps of
\* the id, of the header and of the metadata are not modelled.
generate_document(document_type, data) ==
    LET template == templates_get(document_type)
    IN  IF template.empty THEN Raised("ValueError")
        ELSE IF ~data.is_dict THEN Raised("TypeError")
        ELSE IF template.required_fields \ data.fields # {}
             THEN Raised("ValueError")
        ELSE Returned([document_id |-> DocumentPrefix(document_type),
                       document_type |-> document_type,
                       content |-> [title |-> template.header,
                                    sections |-> template.sections],
                       generated_by |-> "DocumentAutomationSystem",
                       status |-> "generated"])

\* one element of batch_data: a dict that may have the keys 'document_type'
\* and 'data', or a value that is no dict.  A missing 'document_type' reads
\* as None (line 241), a missing 'data' as {} (line 242).
DocData(document_type, has_data, data) ==
    [is_dict |-> TRUE, document_type |-> document_type, has_data |-> has_data,
     data |-> data]
NotADictItem ==
    [is_dict |-> FALSE, document_type |-> "None", has_data |-> FALSE,
     data |-> NotADict]
document_data_of(doc_data) ==
    IF doc_data.has_data THEN doc_data.data ELSE Data({})

\* the item's turn in the loop of batch_generate_documents (lines 240-245)
ItemOutcome(doc_data) ==
    IF ~doc_data.is_dict THEN Raised("AttributeError")
    ELSE generate_document(doc_data.document_type, document_data_of(doc_data))

\* the except clause of the loop (lines 247-249): the error is logged and the
\* loop goes on with the items that are left
RemainingNone(rest) == <<>>
RemainingAfterFailure(rest) == rest

\* the loop of batch_generate_documents (lines 239-249)
RECURSIVE GeneratedFrom(_)
GeneratedFrom(batch) ==
    IF batch = <<>> THEN <<>>
    ELSE LET outcome == ItemOutcome(Head(batch))
         IN  IF outcome.kind = "raise"
             THEN GeneratedFrom(RemainingAfterFailure(Tail(batch)))
             ELSE <<outcome.value>> \o GeneratedFrom(Tail(batch))

\* batch_generate_documents(batch_data) (lines 233-252)
batch_generate_documents(batch) == Returned(GeneratedFrom(batch))

\* document types asked for: the four template names, a name that is none of
\* them, and None
RequestTypes == TemplateNames \cup {"invoice", "None"}
CoaFields ==
    {"batch_number", "manufacturer", "test_results", "expiry_date",
     "approval_signature"}
CdFields == {"exporter", "importer", "hs_codes", "value", "weight", "purpose"}
DataChoices ==
    {Data(CoaFields), Data(CoaFields \ {"approval_signature"}), Data(CdFields),
     NotADict}
BatchItems ==
    {DocData(t, TRUE, d) : t \in RequestTypes, d \in DataChoices}
    \cup {DocData(t, FALSE, Data({})) : t \in RequestTypes}
    \cup {NotADictItem}
BatchLists == UNION {[1..n -> BatchItems] : n \in 0..MaxBatch}

\* no batch given yet
InitDocuments ==
    /\ batch_data = <<>>
    /\ batch_outcome = NotCalled

\* no method of the compliance engine called yet
NoEngineCall == [op |-> "none"]
InitEngine ==
    /\ engine_call = NoEngineCall
    /\ engine_result = NotCalled

\* ------------------------------ PharmaceuticalComplianceEngine (engine)
\* a Medication (lines 12-20).  expiry_days is expiry_date - date.today() in
\* days, as _validate_expiry_dates reads it (line 179); temperature
\* requirements are a dict that may lack 'min' or 'max', in degrees.
TemperatureRequirements(has_min, has_max, min, max) ==
    [has_min |-> has_min, has_max |-> has_max, min |-> min, max |-> max]
NoRequirements == TemperatureRequirements(FALSE, FALSE, 0, 0)
Medication(name, manufacturer, batch_number, expiry_days, temp_reqs, class) ==
    [name |-> name, manufacturer |-> manufacturer,
     batch_number |-> batch_number, expiry_days |-> expiry_days,
     temperature_requirements |-> temp_reqs,
     regulatory_classification |-> class]

\* _is_gmp_certified (lines 216-226): the lowered name holds one of the four
\* certified names.  Of the manufacturers of the catalog these two do.
is_gmp_certified(manufacturer) ==
    manufacturer \in {"Pharmstandard JSC", "R-Pharm"}

\* self.regulations.get(destination_country, {}) (line 89) read through
\* .get('gmp_requirements', {}) and .get(...) of lines 126, 130 and 137, and
\* through .get('document_requirements', []) (line 202)
GmpRequirements(destination_country) ==
    IF destination_country = "russia"
    THEN [quality_certification |-> TRUE, batch_tracking |-> TRUE]
    ELSE [quality_certification |-> FALSE, batch_tracking |-> FALSE]
DocumentRequirements(destination_country) ==
    IF destination_country = "russia"
    THEN {"certificate_of_analysis", "customs_declaration",
          "health_certificate", "import_license"}
    ELSE {}

\* an entry of a check's error list: which message, about which medication
CheckError(message, medication) == [message |-> message, name |-> medication.name]

RECURSIVE Concat(_)
Concat(lists) ==
    IF lists = <<>> THEN <<>> ELSE Head(lists) \o Concat(Tail(lists))

\* _validate_gmp_requirements (lines 120-143)
GmpUncertified(medication, gmp_reqs) ==
    gmp_reqs.quality_certification /\ ~is_gmp_certified(medication.manufacturer)
GmpUntracked(medication, gmp_reqs) ==
    gmp_reqs.batch_tracking /\ medication.batch_number = ""
validate_gmp_requirements(medications, gmp_reqs) ==
    [passed |-> \A i \in 1..Len(medications) :
                    /\ ~GmpUncertified(medications[i], gmp_reqs)
                    /\ ~GmpUntracked(medications[i], gmp_reqs),
     errors |-> Concat([i \in 1..Len(medications) |->
                    (IF GmpUncertified(medications[i], gmp_reqs)
                     THEN <<CheckError("not GMP certified", medications[i])>>
                     ELSE <<>>)
                    \o (IF GmpUntracked(medications[i], gmp_reqs)
                        THEN <<CheckError("Batch number required", medications[i])>>
                        ELSE <<>>)])]

\* _validate_temperature_requirements (lines 145-172)
TemperatureUnspecified(medication) ==
    \/ ~medication.temperature_requirements.has_min
    \/ ~medication.temperature_requirements.has_max
TemperatureRangeInvalid(medication) ==
    /\ ~TemperatureUnspecified(medication)
    /\ medication.temperature_requirements.min
           >= medication.temperature_requirements.max
validate_temperature_requirements(medications) ==
    [passed |-> \A i \in 1..Len(medications) :
                    /\ ~TemperatureUnspecified(medications[i])
                    /\ ~TemperatureRangeInvalid(medications[i]),
     errors |-> Concat([i \in 1..Len(medications) |->
                    IF TemperatureUnspecified(medications[i])
                    THEN <<CheckError("Temperature requirements not specified",
                                      medications[i])>>
                    ELSE IF TemperatureRangeInvalid(medications[i])
                    THEN <<CheckError("Invalid temperature range", medications[i])>>
                    ELSE <<>>])]

\* _validate_expiry_dates (lines 174-192): an expired medication fails the
\* check; one that expires within 30 days only adds a warning to the errors
validate_expiry_dates(medications) ==
    [passed |-> \A i \in 1..Len(medications) : medications[i].expiry_days > 0,
     errors |-> Concat([i \in 1..Len(medications) |->
                    IF medications[i].expiry_days <= 0
                    THEN <<CheckError("has expired", medications[i])>>
                    ELSE IF medications[i].expiry_days <= 30
                    THEN <<CheckError("Warning: expires in days", medications[i])>>
                    ELSE <<>>])]

\* _determine_required_documents (lines 194-214), as the set its list holds
determine_required_documents(medications, destination_country) ==
    {"commercial_invoice", "packing_list"}
    \cup (IF \E i \in 1..Len(medications) :
                medications[i].regulatory_classification = "vaccine"
          THEN {"vaccine_certificate", "temperature_log"} ELSE {})
    \cup (IF \E i \in 1..Len(medications) :
                medications[i].regulatory_classification = "controlled_substance"
          THEN {"controlled_substance_license"} ELSE {})
    \cup DocumentRequirements(destination_country)

\* what validate_shipment_compliance takes over from a check: its errors, when
\* the check did not pass (lines 95-97, 103-105, 113-115)
ErrorsAlways(checks) == checks.errors
ErrorsTakenOver(checks) == IF ~checks.passed THEN checks.errors ELSE <<>>

\* validate_shipment_compliance(medications, destination_country)
\* (lines 76-118)
validate_shipment_compliance(medications, destination_country) ==
    LET gmp_checks ==
            validate_gmp_requirements(medications,
                                      GmpRequirements(destination_country))
        temp_checks == validate_temperature_requirements(medications)
        expiry_checks == validate_expiry_dates(medications)
    IN  Returned(
            [is_compliant |-> /\ gmp_checks.passed
                              /\ temp_checks.passed
                              /\ expiry_checks.passed,
             validation_errors |-> ErrorsTakenOver(gmp_checks)
                                   \o ErrorsTakenOver(temp_checks)
                                   \o ErrorsTakenOver(expiry_checks),
             required_documents |->
                 determine_required_documents(medications, destination_country),
             temperature_compliance |-> temp_checks.passed,
             regulatory_checks |-> [gmp |-> gmp_checks]])

\* the medications of a shipment: one that passes every check and others that
\* each fail or nearly fail one
VaccineRange == TemperatureRequirements(TRUE, TRUE, 2, 8)
MedicationCatalog ==
    {Medication("Vaccine A", "Pharmstandard JSC", "B-1", 400, VaccineRange, "vaccine"),
     Medication("Tablets B", "Acme Pharma", "B-2", 400, VaccineRange, "otc"),
     Medication("Tablets C", "R-Pharm", "", 400, VaccineRange, "otc"),
     Medication("Insulin D", "R-Pharm", "B-4", -5, VaccineRange, "prescription"),
     Medication("Insulin E", "R-Pharm", "B-5", 0, VaccineRange, "prescription"),
     Medication("Insulin F", "R-Pharm", "B-6", 10, VaccineRange, "prescription"),
     Medication("Insulin G", "R-Pharm", "B-7", 30, VaccineRange, "prescription"),
     Medication("Insulin H", "R-Pharm", "B-8", 31, VaccineRange, "prescription"),
     Medication("Serum I", "Pharmstandard JSC", "B-9", 400, NoRequirements, "vaccine"),
     Medication("Serum J", "Pharmstandard JSC", "B-10", 400,
                TemperatureRequirements(TRUE, FALSE, 2, 0), "vaccine"),
     Medication("Serum K", "Pharmstandard JSC", "B-11", 400,
                TemperatureRequirements(TRUE, TRUE, 8, 2), "vaccine"),
     Medication("Serum L", "Pharmstandard JSC", "B-12", 400,
                TemperatureRequirements(TRUE, TRUE, 5, 5), "vaccine"),
     Medication("Opioid M", "Acme Pharma", "B-13", 10, VaccineRange,
                "controlled_substance")}
Shipments == UNION {[1..n -> MedicationCatalog] : n \in 0..MaxMedications}
DestinationCountries == {"russia", "international", "mongolia"}

\* the names `from datetime import ...` binds (line 7): datetime and date.
\* timedelta, which lines 294 and 309 use, is not among them.
DatetimeImports == {"datetime", "date"}

\* _generate_certificate_of_analysis (lines 254-268), without its timestamps
generate_certificate_of_analysis(shipment_data) ==
    Returned([document_id |-> "COA",
              medication_details |-> shipment_data.medications,
              approval_signature |-> "Dr. Ivan Petrov, Quality Manager"])

\* sum(med.get('value', 0) for med in medications) (line 273)
RECURSIVE SumValues(_)
SumValues(medications) ==
    IF medications = <<>> THEN 0
    ELSE (IF Head(medications).has_value THEN Head(medications).value ELSE 0)
         + SumValues(Tail(medications))

\* _generate_customs_declaration (lines 270-284), without its timestamps
generate_customs_declaration(shipment_data) ==
    Returned([customs_declaration_number |-> "CD",
              exporter |-> "Lara Pharmacy Network",
              importer |-> shipment_data.destination_pharmacy,
              total_value_usd |-> SumValues(shipment_data.medications),
              weight_kg |-> shipment_data.total_weight])

\* _generate_health_certificate (lines 286-296): building 'valid_until'
\* (line 294) looks the name timedelta up
generate_health_certificate(shipment_data) ==
    IF "timedelta" \notin DatetimeImports THEN Raised("NameError")
    ELSE Returned([certificate_number |-> "HC",
                   issuing_authority |-> "Ministry of Health of Buryatia",
                   storage_conditions_verified |-> TRUE])

\* _generate_temperature_log (lines 298-310): building 'calibration_date'
\* (line 309) looks the name timedelta up
generate_temperature_log(shipment_data) ==
    IF "timedelta" \notin DatetimeImports THEN Raised("NameError")
    ELSE Returned([log_id |-> "TEMP-LOG",
                   temperature_readings |-> shipment_data.temperature_data,
                   compliance_status |-> "Within specification"])

\* the keys of document_generators (lines 233-238)
DocumentGenerators ==
    {"certificate_of_analysis", "customs_declaration", "health_certificate",
     "temperature_log"}

\* generate_compliance_document(document_type, shipment_data) (lines 228-252)
generate_compliance_document(document_type, shipment_data) ==
    IF document_type \notin DocumentGenerators THEN Raised("ValueError")
    ELSE LET content ==
                 CASE document_type = "certificate_of_analysis" ->
                          generate_certificate_of_analysis(shipment_data)
                   [] document_type = "customs_declaration" ->
                          generate_customs_declaration(shipment_data)
                   [] document_type = "health_certificate" ->
                          generate_health_certificate(shipment_data)
                   [] document_type = "temperature_log" ->
                          generate_temperature_log(shipment_data)
         IN  IF content.kind = "raise" THEN content
             ELSE Returned([document_type |-> document_type,
                            content |-> content.value,
                            status |-> "generated"])

\* the shipment data a document is asked for: the dict of main() (medications
\* with a value, or without one) and the empty dict, whose .get calls give
\* the defaults
ShipmentData(medications, destination_pharmacy, total_weight) ==
    [medications |-> medications, destination_pharmacy |-> destination_pharmacy,
     total_weight |-> total_weight, temperature_data |-> <<>>]
ShipmentDataChoices ==
    {ShipmentData(<<>>, "None", 0),
     ShipmentData(<<[has_value |-> TRUE, value |-> 1500]>>, "pharmacy_001", 12),
     ShipmentData(<<[has_value |-> TRUE, value |-> 1500],
                    [has_value |-> FALSE, value |-> 0]>>, "pharmacy_001", 12)}

\* the document types asked for: the four keys, and names that are no key
DocumentTypeChoices ==
    DocumentGenerators \cup {"import_license", "commercial_invoice", "", "None"}

\* no direct call made, nothing returned, no report made
NoProbe == [current |-> None, target |-> None, other |-> None,
            weather |-> [condition |-> "clear"]]
NoAnswer == [op |-> "none", clock |-> 0, clock2 |-> 0, kind |-> "num", val |-> 0,
             chosen |-> None, status |-> "none"]
NoReport == [made |-> FALSE]

\* no second thread
NoThread == [pc |-> "none"]

\* self.road_conditions_weights as __init__ sets it, in tenths
RoadConditionsWeights ==
    [highway |-> 10, paved_road |-> 12, gravel_road |-> 15,
     mountain_pass |-> 20, winter_road |-> 18]

InitCall(S, C) ==
    /\ pharmacies \in InputLists(S)
    /\ current_weather \in [condition : C]
    /\ now = 0
    /\ pc = "idle"
    /\ depot = None
    /\ prioritized_pharmacies = <<>>
    /\ route = <<>>
    /\ unvisited = <<>>
    /\ idx = 1
    /\ best_score = NegInf
    /\ best_pharmacy = None
    /\ candidates = <<>>
    /\ scores = <<>>
    /\ next_pharmacy = None
    /\ result = <<>>
    /\ calls = 0
    /\ first_result = <<>>
    /\ first_clock = 0
    /\ urgency_seen = {}
    /\ lookups = <<>>
    /\ given = pharmacies
    /\ report = NoReport
    /\ road_conditions_weights = RoadConditionsWeights
    /\ InitMonitor
    /\ InitDocuments
    /\ InitEngine

\* no scoring method is called directly and one thread uses the optimizer
NoDirectCall ==
    /\ probe = NoProbe
    /\ answer = NoAnswer
    /\ other = NoThread
    /\ running = 1

\* the optimizer is given a list the input contract accepts
Init == InitCall(ValidPharmacies, Conditions) /\ NoDirectCall

\* the optimizer is given any list: the code validates nothing
InitUnvalidated == InitCall(MixedPharmacies, Conditions) /\ NoDirectCall

\* the optimizer is given an accepted list, under snow as in main()
InitRepeated == InitCall(ValidPharmacies, {"snow"}) /\ NoDirectCall

\* the points, adjusted pharmacies and weather the scoring methods are called
\* with directly: adjusted priorities 3.0, 7.5 and 10, delivery windows that
\* have started, start within 2 hours, within 4 hours and later
ProbePoints == {Pharmacy("current", loc, 10, 0) : loc \in {"depot"} \cup ValidLocs}
ProbePriorities == {30, 75, 100}
ProbeWindowStarts == {0, 1, 3, 4, 5, 7}
ProbeTargets ==
    {Pharmacy("pharmacy_001", loc, pr, ws) :
        loc \in ValidLocs, pr \in ProbePriorities, ws \in ProbeWindowStarts}
ProbeOthers ==
    {Pharmacy("pharmacy_002", loc, pr, ws) :
        loc \in ValidLocs, pr \in ProbePriorities, ws \in ProbeWindowStarts}

\* an optimizer whose scoring methods are called directly
InitDirect ==
    /\ InitCall({}, {"clear"})
    /\ probe \in [current : ProbePoints, target : ProbeTargets,
                  other : ProbeOthers, weather : [condition : Conditions]]
    /\ answer = NoAnswer
    /\ other = NoThread
    /\ running = 1

\* --------------------------------------------------------------- actions
\* optimize_delivery_route is called (lines 76-94): the empty list returns at
\* once; otherwise the depot is built, reading the clock, the priorities are
\* adjusted and the loop is entered.
Enter ==
    /\ calls' = calls + 1
    /\ first_result' = IF calls = 1 THEN result ELSE first_result
    /\ urgency_seen' = {}
    /\ IF pharmacies = <<>>
       THEN /\ pc' = "returned"
            /\ result' = <<>>
            /\ lookups' = <<>>
            /\ UNCHANGED <<pharmacies, now, first_clock, locals>>
       ELSE \E t \in now..MaxTime :
            /\ now' = t
            /\ first_clock' = IF calls = 0 THEN t ELSE first_clock
            /\ depot' = Depot
            /\ prioritized_pharmacies' = apply_emergency_priority(pharmacies)
            /\ lookups' = LookupsOfAdjust(pharmacies)
            /\ pharmacies' = InputListAfterAdjust(pharmacies)
            /\ route' = <<depot'>>
            /\ unvisited' = prioritized_pharmacies'
            /\ idx' = 1
            /\ best_score' = NegInf
            /\ best_pharmacy' = None
            /\ candidates' = <<>>
            /\ scores' = <<>>
            /\ next_pharmacy' = None
            /\ pc' = "select"
            /\ UNCHANGED result
    /\ UNCHANGED <<current_weather, given, aside, road_conditions_weights>>

\* the first call on the optimizer
Call ==
    /\ pc = "idle"
    /\ Enter

\* a later call on the same optimizer, with the same arguments
CallAgain ==
    /\ pc \in {"returned", "raised"}
    /\ calls < MaxCalls
    /\ Enter

\* one iteration of the for loop of _select_next_pharmacy (lines 164-169):
\* the candidate is scored against route[-1], reading the clock, and replaces
\* the best one when its score is greater.  An exception leaves the call.
ScoreCandidate ==
    /\ pc = "select"
    /\ idx <= Len(unvisited)
    /\ \E t \in now..MaxTime :
        LET score == calculate_pharmacy_score(route[Len(route)], unvisited[idx],
                                              current_weather, t)
        IN  IF score.kind = "raise"
            THEN /\ t = now
                 /\ pc' = "raised"
                 /\ UNCHANGED <<now, idx, best_score, best_pharmacy, candidates,
                                scores, urgency_seen, lookups>>
            ELSE /\ now' = t
                 /\ candidates' = unvisited
                 /\ scores' = IF idx = 1 THEN <<score>> ELSE Append(scores, score)
                 /\ IF Better(score, best_score)
                    THEN /\ best_score' = score.val
                         /\ best_pharmacy' = unvisited[idx]
                    ELSE UNCHANGED <<best_score, best_pharmacy>>
                 /\ urgency_seen' = urgency_seen \cup
                        {<<unvisited[idx].id, calculate_time_urgency(unvisited[idx], t)>>}
                 /\ lookups' = LookupsAfterScoring(lookups, unvisited[idx])
                 /\ idx' = idx + 1
                 /\ UNCHANGED pc
    /\ UNCHANGED <<pharmacies, current_weather, depot, prioritized_pharmacies,
                   route, unvisited, next_pharmacy, result, calls, first_result,
                   first_clock, given, aside, road_conditions_weights>>

\* _select_next_pharmacy returns and the loop body ends (lines 104-108 and the
\* loop test of line 96): the best candidate moves from unvisited to the route,
\* or the loop is left when there is none.
Choose ==
    /\ pc = "select"
    /\ idx > Len(unvisited)
    /\ next_pharmacy' = best_pharmacy
    /\ IF best_pharmacy # None
       THEN /\ route' = Append(route, best_pharmacy)
            /\ unvisited' = Remove(unvisited, best_pharmacy)
            /\ pc' = IF unvisited' # <<>> THEN "select" ELSE "finish"
       ELSE /\ pc' = "finish"
            /\ UNCHANGED <<route, unvisited>>
    /\ idx' = 1
    /\ best_score' = NegInf
    /\ best_pharmacy' = None
    /\ UNCHANGED <<pharmacies, current_weather, now, depot,
                   prioritized_pharmacies, candidates, scores, result, calls,
                   first_result, first_clock, urgency_seen, lookups, given,
                   aside, road_conditions_weights>>

\* the depot is appended and the route returned (lines 110-114)
Return ==
    /\ pc = "finish"
    /\ route' = ReturnToDepot(route, depot)
    /\ result' = route'
    /\ pc' = "returned"
    /\ UNCHANGED <<pharmacies, current_weather, now, depot,
                   prioritized_pharmacies, unvisited, idx, best_score,
                   best_pharmacy, candidates, scores, next_pharmacy, calls,
                   first_result, first_clock, urgency_seen, lookups, given,
                   aside, road_conditions_weights>>

Next == Call \/ ScoreCandidate \/ Choose \/ Return

\* one call on accepted input
Spec == Init /\ [][Next]_vars

\* one call on any input
SpecUnvalidated == InitUnvalidated /\ [][Next]_vars

\* repeated calls with the same arguments
\* a direct call of _calculate_weather_impact(weather, target)
CallWeatherImpact ==
    /\ probe # NoProbe
    /\ answer = NoAnswer
    /\ answer' = [NoAnswer EXCEPT
                    !.op = "weather_impact",
                    !.val = calculate_weather_impact(probe.weather, probe.target)]
    /\ UNCHANGED <<call_state, probe, report, road_conditions_weights, other,
                   running, peripheral>>

\* a direct call of _calculate_time_urgency(target); t is what datetime.now()
\* returns in it
CallTimeUrgency ==
    /\ probe # NoProbe
    /\ answer = NoAnswer
    /\ \E t \in now..MaxTime :
         answer' = [NoAnswer EXCEPT
                      !.op = "time_urgency",
                      !.clock = t,
                      !.val = calculate_time_urgency(probe.target, t)]
    /\ UNCHANGED <<call_state, probe, report, road_conditions_weights, other,
                   running, peripheral>>

\* a direct call of _calculate_pharmacy_score(current, target, weather)
CallPharmacyScore ==
    /\ probe # NoProbe
    /\ answer = NoAnswer
    /\ \E t \in now..MaxTime :
         answer' = [NoAnswer EXCEPT
                      !.op = "pharmacy_score",
                      !.clock = t,
                      !.val = calculate_pharmacy_score(probe.current, probe.target,
                                                       probe.weather, t).val]
    /\ UNCHANGED <<call_state, probe, report, road_conditions_weights, other,
                   running, peripheral>>

\* a direct call of _select_next_pharmacy(current, [target, other], weather);
\* the clock is read once for each candidate and does not go back
CallSelectNext ==
    /\ probe # NoProbe
    /\ answer = NoAnswer
    /\ \E t \in now..MaxTime, t2 \in now..MaxTime :
         /\ t <= t2
         /\ answer' = [NoAnswer EXCEPT
                         !.op = "select_next",
                         !.clock = t,
                         !.clock2 = t2,
                         !.chosen = select_next_pharmacy(probe.current,
                                        <<probe.target, probe.other>>,
                                        probe.weather, <<t, t2>>)]
    /\ UNCHANGED <<call_state, probe, report, road_conditions_weights, other,
                   running, peripheral>>

\* a direct call of calculate_distance on the coordinates of two points
CallDistance ==
    /\ probe # NoProbe
    /\ answer = NoAnswer
    /\ LET distance == calculate_distance(probe.current.loc, probe.target.loc)
       IN  answer' = [NoAnswer EXCEPT
                        !.op = "distance",
                        !.kind = distance.kind,
                        !.val = distance.val]
    /\ UNCHANGED <<call_state, probe, report, road_conditions_weights, other,
                   running, peripheral>>

\* the points calculate_distance is called with: all have valid coordinates
DistancePoints ==
    {Pharmacy("point", loc, 10, 0) : loc \in {"depot"} \cup ValidLocs \cup FarPlaces}

InitDistance ==
    /\ InitCall({}, {"clear"})
    /\ probe \in [current : DistancePoints, target : DistancePoints,
                  other : {None}, weather : [condition : {"clear"}]]
    /\ answer = NoAnswer
    /\ other = NoThread
    /\ running = 1

NextDistance == CallDistance

SpecDistance == InitDistance /\ [][NextDistance]_vars

NextDirect ==
    CallWeatherImpact \/ CallTimeUrgency \/ CallPharmacyScore \/ CallSelectNext

SpecDirect == InitDirect /\ [][NextDirect]_vars

\* generate_route_report(route) on the route a call returned, as in main()
Report ==
    /\ pc = "returned"
    /\ ~report.made
    /\ report' = generate_route_report(result, road_conditions_weights)
    /\ UNCHANGED <<call_state, probe, answer, road_conditions_weights, other,
                   running, peripheral>>

\* a route is optimized under clear weather and reported
InitReport == InitCall(ValidPharmacies, {"clear"}) /\ NoDirectCall

NextReport == Next \/ Report

SpecReport == InitReport /\ [][NextReport]_vars

\* the arguments, locals and history of the running thread's call
Frame ==
    [pharmacies |-> pharmacies, current_weather |-> current_weather, pc |-> pc,
     depot |-> depot, prioritized_pharmacies |-> prioritized_pharmacies,
     route |-> route, unvisited |-> unvisited, idx |-> idx,
     best_score |-> best_score, best_pharmacy |-> best_pharmacy,
     candidates |-> candidates, scores |-> scores,
     next_pharmacy |-> next_pharmacy, result |-> result,
     urgency_seen |-> urgency_seen, lookups |-> lookups, given |-> given,
     calls |-> calls, first_result |-> first_result, first_clock |-> first_clock]

\* the frame of a thread that has not made its call
IdleFrame(list, weather) ==
    [pharmacies |-> list, current_weather |-> weather, pc |-> "idle",
     depot |-> None, prioritized_pharmacies |-> <<>>,
     route |-> <<>>, unvisited |-> <<>>, idx |-> 1,
     best_score |-> NegInf, best_pharmacy |-> None,
     candidates |-> <<>>, scores |-> <<>>,
     next_pharmacy |-> None, result |-> <<>>,
     urgency_seen |-> {}, lookups |-> <<>>, given |-> list,
     calls |-> 0, first_result |-> <<>>, first_clock |-> 0]

\* what a suspended thread finds in its frame when it runs again, the other
\* thread having run in between: every variable of optimize_delivery_route and
\* of the methods it calls is a local or a parameter (lines 70-171)
ResumedSharingUnvisited(own, ran) == [own EXCEPT !.unvisited = ran.unvisited]
Resumed(own, ran) == own

\* the interpreter suspends the running thread and runs the other one; the
\* optimizer and the wall clock are the same for both
Switch ==
    /\ other # NoThread
    /\ other' = Frame
    /\ running' = 3 - running
    /\ LET f == Resumed(other, Frame)
       IN  /\ pharmacies' = f.pharmacies
           /\ current_weather' = f.current_weather
           /\ pc' = f.pc
           /\ depot' = f.depot
           /\ prioritized_pharmacies' = f.prioritized_pharmacies
           /\ route' = f.route
           /\ unvisited' = f.unvisited
           /\ idx' = f.idx
           /\ best_score' = f.best_score
           /\ best_pharmacy' = f.best_pharmacy
           /\ candidates' = f.candidates
           /\ scores' = f.scores
           /\ next_pharmacy' = f.next_pharmacy
           /\ result' = f.result
           /\ urgency_seen' = f.urgency_seen
           /\ lookups' = f.lookups
           /\ given' = f.given
           /\ calls' = f.calls
           /\ first_result' = f.first_result
           /\ first_clock' = f.first_clock
    /\ UNCHANGED <<now, probe, answer, report, road_conditions_weights,
                   peripheral>>

\* the pharmacies the two threads give to the optimizer
ThreadOnePharmacies ==
    {Pharmacy("pharmacy_001", "near", 30, 3), Pharmacy("pharmacy_002", "near", 80, 3)}
ThreadTwoPharmacies ==
    {Pharmacy("pharmacy_005", "north", 80, 5), Pharmacy("pharmacy_002", "near", 30, 3)}

\* two threads are about to call optimize_delivery_route on one optimizer
InitConcurrent ==
    /\ InitCall(ThreadOnePharmacies, {"clear", "snow"})
    /\ probe = NoProbe
    /\ answer = NoAnswer
    /\ running = 1
    /\ other \in {IdleFrame(list, [condition |-> "snow"]) :
                     list \in InputLists(ThreadTwoPharmacies)}

NextConcurrent == Next \/ Switch

SpecConcurrent == InitConcurrent /\ [][NextConcurrent]_vars

\* process_sensor_reading(sensor_data) (lines 43-86): a missing key raises
\* before anything is stored; otherwise the reading is stored with the clock
\* reading t and, for a warning or a critical status, an alert is appended
\* with a later clock reading t2
ProcessSensorReading ==
    /\ reading_result.seq < MaxReadings
    /\ \E sensor_data \in SensorInputs :
         IF ~HasRequiredKeys(sensor_data)
         THEN /\ reading_result' = [seq |-> reading_result.seq + 1,
                                    kind |-> "raise", status |-> "none",
                                    sensor_data |-> sensor_data]
              /\ UNCHANGED <<sensor_readings, alert_history, processed, now>>
         ELSE LET medication_type == medication_type_of(sensor_data)
                  temp_range == temp_range_of(medication_type)
                  compliance_status ==
                      check_temperature_compliance(sensor_data.temperature,
                                                   temp_range)
              IN  \E t \in now..MaxTime, t2 \in now..MaxTime :
                    /\ t <= t2
                    /\ sensor_readings' =
                         [sensor_readings EXCEPT ![sensor_data.sensor_id] =
                            Reading(sensor_data.temperature, t,
                                    compliance_status, medication_type)]
                    /\ IF AlertNeeded(compliance_status)
                       THEN /\ alert_history' =
                                 Append(alert_history,
                                        Alert(sensor_data, compliance_status, t2))
                            /\ now' = t2
                       ELSE /\ UNCHANGED alert_history
                            /\ now' = t
                            /\ t2 = t
                    /\ processed' = Append(processed, compliance_status)
                    /\ reading_result' = [seq |-> reading_result.seq + 1,
                                          kind |-> "returned",
                                          status |-> compliance_status,
                                          sensor_data |-> sensor_data]
    /\ UNCHANGED <<pharmacies, current_weather, pc, locals, result,
                   urgency_seen, lookups, given, calls, first_result,
                   first_clock, probe, answer, report, road_conditions_weights,
                   other, running, stats, documents, engine>>

\* the periods get_temperature_stats is asked for, in hours
StatsHours == {1, 24}

\* get_temperature_stats(hours), reading the clock
GetTemperatureStats ==
    /\ \E hours \in StatsHours, t \in now..MaxTime :
         /\ now' = t
         /\ stats' = get_temperature_stats(sensor_readings, hours, t)
    /\ UNCHANGED <<pharmacies, current_weather, pc, locals, result,
                   urgency_seen, lookups, given, calls, first_result,
                   first_clock, probe, answer, report, road_conditions_weights,
                   other, running, sensor_readings, alert_history, processed,
                   reading_result, documents, engine>>

\* a direct call of _check_temperature_compliance(temperature, temp_range)
CallCheckCompliance ==
    /\ answer = NoAnswer
    /\ answer' = [NoAnswer EXCEPT
                    !.op = "check_temperature_compliance",
                    !.status = check_temperature_compliance(probe.temperature,
                                                            probe.temp_range)]
    /\ UNCHANGED <<call_state, probe, report, road_conditions_weights, other,
                   running, peripheral>>

\* the ranges of the table and the temperatures at, just below and just
\* above each of their limits
CheckRanges == {MEDICATION_TEMPERATURE_RANGES(type) : type \in MedicationTypes}
CheckTemperatures ==
    UNION {{r.min + d, r.max + d, r.critical_min + d, r.critical_max + d} :
           r \in CheckRanges, d \in {-1, 0, 1}}

InitCompliance ==
    /\ InitCall({}, {"clear"})
    /\ probe \in [temperature : CheckTemperatures, temp_range : CheckRanges]
    /\ answer = NoAnswer
    /\ other = NoThread
    /\ running = 1

NextCompliance == CallCheckCompliance

SpecCompliance == InitCompliance /\ [][NextCompliance]_vars

\* a monitor that has just been constructed
InitMonitorSpec == InitCall({}, {"clear"}) /\ NoDirectCall

NextMonitor == ProcessSensorReading \/ GetTemperatureStats

SpecMonitor == InitMonitorSpec /\ [][NextMonitor]_vars

\* batch_generate_documents(batch_data) on a DocumentAutomation that has just
\* been constructed
BatchGenerateDocuments ==
    /\ batch_outcome.kind = "none"
    /\ \E batch \in BatchLists :
        /\ batch_data' = batch
        /\ batch_outcome' = batch_generate_documents(batch)
    /\ UNCHANGED <<call_state, probe, answer, report, road_conditions_weights,
                   other, running, monitor, engine>>

NextDocuments == BatchGenerateDocuments

SpecDocuments == InitMonitorSpec /\ [][NextDocuments]_vars

\* validate_shipment_compliance(medications, destination_country) on an engine
\* that has just been constructed
ValidateShipmentCompliance ==
    /\ engine_call.op = "none"
    /\ \E medications \in Shipments, destination_country \in DestinationCountries :
        /\ engine_call' = [op |-> "validate_shipment_compliance",
                           medications |-> medications,
                           destination_country |-> destination_country]
        /\ engine_result' =
               validate_shipment_compliance(medications, destination_country)
    /\ UNCHANGED <<call_state, probe, answer, report, road_conditions_weights,
                   other, running, monitor, documents>>

\* generate_compliance_document(document_type, shipment_data) on an engine
\* that has just been constructed
GenerateComplianceDocument ==
    /\ engine_call.op = "none"
    /\ \E document_type \in DocumentTypeChoices,
          shipment_data \in ShipmentDataChoices :
        /\ engine_call' = [op |-> "generate_compliance_document",
                           document_type |-> document_type,
                           shipment_data |-> shipment_data]
        /\ engine_result' =
               generate_compliance_document(document_type, shipment_data)
    /\ UNCHANGED <<call_state, probe, answer, report, road_conditions_weights,
                   other, running, monitor, documents>>

NextEngine == ValidateShipmentCompliance \/ GenerateComplianceDocument

SpecEngine == InitMonitorSpec /\ [][NextEngine]_vars

\* one call on an accepted list under snow, run to its end: the thread of the
\* call is the only one there is, so a step of the call that can be taken is
\* taken
SpecTermination == InitRepeated /\ [][Next]_vars /\ WF_vars(Next)

NextRepeated == Next \/ CallAgain

SpecRepeated == InitRepeated /\ [][NextRepeated]_vars

\* ---------------------------------------------------------------- claims
IdsOf(s) == [i \in 1..Len(s) |-> s[i].id]

IsDepot(p) == p.id = "depot" /\ p.priority = 10 /\ p.loc = "depot"

\* the stops of a route: what lies strictly between its two ends
Stops(r) == SubSeq(r, 2, Len(r) - 1)

C1_WitnessEmpty == pc = "returned" /\ pharmacies = <<>> /\ result = <<>>

Selected ==
    /\ pc \in {"select", "finish"}
    /\ idx = 1
    /\ scores # <<>>
    /\ next_pharmacy # None

\* the position in candidates of the pharmacy the selection returned
SelectedAt(k) == k \in 1..Len(candidates) /\ candidates[k] = next_pharmacy

MaxScore == CHOOSE m \in {scores[j].val : j \in 1..Len(scores)} :
                \A j \in 1..Len(scores) : scores[j].val <= m

\* C3: at every selection step the pharmacy appended to the route has a score,
\* computed against the route's last node before the step and the call's
\* weather, that is at least the score of every other candidate of the step.
C3_SelectsMaximum ==
    Selected =>
        /\ route[Len(route)] = next_pharmacy
        /\ \E k \in 1..Len(candidates) :
             /\ SelectedAt(k)
             /\ \A j \in 1..Len(candidates) :
                  /\ scores[j].val <= scores[k].val
                  /\ \E t \in 0..now :
                       scores[j] = calculate_pharmacy_score(
                           route[Len(route) - 1], candidates[j], current_weather, t)

C3_Witness ==
    /\ Selected
    /\ Len(candidates) >= 2
    /\ candidates[1] # next_pharmacy
    /\ scores[1].val < MaxScore

\* the number an id ends with
IdNumber(id) ==
    CASE id = "pharmacy_001" -> 1
      [] id = "pharmacy_002" -> 2
      [] id = "pharmacy_005" -> 5
      [] OTHER -> 0

\* two candidates of the finished selection share the maximum score
TieAtMaximum ==
    /\ Selected
    /\ \E i, j \in 1..Len(candidates) :
         i # j /\ scores[i].val = MaxScore /\ scores[j].val = MaxScore

\* C4 as claimed: when candidates tie at the maximum score, the one with the
\* lowest id is selected.
C4_LowerIdWins ==
    TieAtMaximum =>
        \A j \in 1..Len(candidates) :
            scores[j].val = MaxScore =>
                IdNumber(next_pharmacy.id) <= IdNumber(candidates[j].id)

\* C4 as amended: when candidates tie at the maximum score, the one that comes
\* first in the candidate list is selected.
C4_FirstListedWins ==
    TieAtMaximum =>
        \E k \in 1..Len(candidates) :
            /\ SelectedAt(k)
            /\ scores[k].val = MaxScore
            /\ \A j \in 1..Len(candidates) : scores[j].val = MaxScore => k <= j

C4_Witness ==
    /\ TieAtMaximum
    /\ \E j \in 1..Len(candidates) :
         /\ scores[j].val = MaxScore
         /\ IdNumber(candidates[j].id) < IdNumber(next_pharmacy.id)

\* C5: within one call the urgency term of a candidate has one value, the one
\* its window has at the call's reference time, at every step that scores it.
C5_OneUrgencyPerCandidate ==
    \A a, b \in urgency_seen : a[1] = b[1] => a[2] = b[2]

\* the ids of the routes of the first call and of the last one
SameOrder == IdsOf(result) = IdsOf(first_result)

\* C6 as claimed: a later call with the same pharmacies, multipliers and
\* weather returns the ids in the order the first call returned them.
C6_SameRouteTwice ==
    (pc = "returned" /\ calls >= 2) => SameOrder

\* every window start is on the same side of the 2-hour and 4-hour limits at
\* the first clock reading of the first call and at the latest reading
SameUrgencyBands ==
    \A i \in 1..Len(pharmacies) : \A h \in {2, 4} :
        (pharmacies[i].window_start - first_clock <= h)
            <=> (pharmacies[i].window_start - now <= h)

\* C6 as amended: the two calls return the same order when, in addition, no
\* delivery-window start crosses the 2-hour or the 4-hour limit between the
\* start of the first call and the end of the later one.
C6_SameRouteSameBands ==
    (pc = "returned" /\ calls >= 2 /\ SameUrgencyBands) => SameOrder

C6_Witness ==
    /\ pc = "returned"
    /\ calls >= 2
    /\ SameUrgencyBands
    /\ now > first_clock
    /\ Len(pharmacies) >= 2
    /\ SameOrder

\* a selection has just finished in which no candidate got a score that
\* compares: every score of the step is nan
NoneScorable ==
    /\ pc \in {"select", "finish", "returned"}
    /\ idx = 1
    /\ scores # <<>>
    /\ \A j \in 1..Len(scores) : scores[j].kind = "nan"

\* the loop was left with candidates still unvisited
StoppedEarly == pc \in {"finish", "returned"} /\ unvisited # <<>>

C7_WitnessRaised == pc = "raised" /\ idx >= 2

\* round(x) of Python for x >= 0 given in tenths: to the nearest integer, a
\* half to the even one
PyRound(x) ==
    LET q == x \div 10
        r == x % 10
    IN  IF r < 5 THEN q
        ELSE IF r > 5 THEN q + 1
        ELSE IF q % 2 = 0 THEN q ELSE q + 1

\* the element of the adjusted list made from pharmacies[i]
AdjustedOf(i) ==
    CHOOSE b \in {prioritized_pharmacies[k] : k \in 1..Len(prioritized_pharmacies)} :
        b.id = pharmacies[i].id

Adjusted == pc # "idle" /\ pharmacies # <<>>

\* C8: the adjusted priority is min(10, round(priority * multiplier)), an
\* integer.
C8_RoundedPriority ==
    Adjusted =>
        \A i \in 1..Len(pharmacies) :
            AdjustedOf(i).priority =
                10 * Min(10, PyRound((pharmacies[i].priority
                                      * detect_emergency_situation(pharmacies[i].id))
                                     \div 10))

\* C9: every pharmacy of the adjusted list, and so every stop of a route, has
\* adjusted priority at most 10, whatever the input.
C9_PriorityAtMostTen ==
    /\ \A k \in 1..Len(prioritized_pharmacies) :
         prioritized_pharmacies[k].priority <= 100
    /\ \A k \in 1..Len(route) : route[k].priority <= 100
    /\ \A k \in 1..Len(result) : result[k].priority <= 100

C9_Witness ==
    /\ pc = "returned"
    /\ \E i \in 1..Len(pharmacies) : \E k \in 1..Len(result) :
         /\ pharmacies[i].priority > 100
         /\ result[k].id = pharmacies[i].id
         /\ result[k].priority = 100

\* the position of an id in the caller's list
InputPosition(id) == CHOOSE i \in 1..Len(pharmacies) : pharmacies[i].id = id

\* C10: the adjusted list is in non-increasing order of adjusted priority, and
\* pharmacies of equal adjusted priority are in the order of the input list.
C10_SortedStable ==
    Adjusted =>
        /\ Len(prioritized_pharmacies) = Len(pharmacies)
        /\ \A i \in 1..Len(pharmacies) :
             AdjustedOf(i) = BoostedPharmacy(pharmacies[i])
        /\ \A j, k \in 1..Len(prioritized_pharmacies) :
             j < k =>
               /\ prioritized_pharmacies[j].priority
                    >= prioritized_pharmacies[k].priority
               /\ prioritized_pharmacies[j].priority
                    = prioritized_pharmacies[k].priority
                  => InputPosition(prioritized_pharmacies[j].id)
                       < InputPosition(prioritized_pharmacies[k].id)

C10_Witness ==
    /\ Adjusted
    /\ \E j, k \in 1..Len(prioritized_pharmacies) :
         /\ j < k
         /\ prioritized_pharmacies[j].priority = prioritized_pharmacies[k].priority
         /\ prioritized_pharmacies[j].id = pharmacies[j].id

\* C11: optimize_delivery_route leaves the caller's list and every Pharmacy
\* in it as they were given: same length, same order, same priority on each
\* element; the boosted priorities are on the values of the adjusted list only.
C11_InputUnchanged ==
    /\ Len(pharmacies) = Len(given)
    /\ \A i \in 1..Len(given) : pharmacies[i] = given[i]

\* a call has returned a route whose order differs from the caller's and on
\* which a pharmacy carries a boosted priority
C11_Witness ==
    /\ pc = "returned"
    /\ Len(given) = 2
    /\ result[2].id = given[2].id
    /\ result[2].priority # given[2].priority

\* C19: in one call _detect_emergency_situation is called exactly once for
\* each input pharmacy, in input order, all before the first candidate is
\* scored; scoring and selection make no further lookup.
C19_LookupsBeforeLoop ==
    pc \in {"select", "finish", "returned", "raised"} =>
        /\ Len(lookups) = Len(pharmacies)
        /\ \A i \in 1..Len(pharmacies) : lookups[i] = pharmacies[i].id

\* both selection steps of a two-pharmacy call have scored their candidates
C19_Witness ==
    /\ pc = "returned"
    /\ Len(result) = 4
    /\ Len(lookups) = 2

\* the places whose latitude is above the mountain threshold of the code
Mountainous == {loc \in ValidLocs : Latitude(loc) > 525000}

\* C12: raising a candidate's priority, its place and delivery window held
\* fixed, never lowers its score; and of two candidates at the same place that
\* got the same urgency term and differ in adjusted priority, the one of
\* higher priority is selected.
C12_PriorityMonotone ==
    /\ answer.op = "pharmacy_score" =>
         \A pr \in ProbePriorities :
            pr >= probe.target.priority =>
              calculate_pharmacy_score(probe.current,
                                       [probe.target EXCEPT !.priority = pr],
                                       probe.weather, answer.clock).val
                >= answer.val
    /\ ( /\ answer.op = "select_next"
         /\ probe.target.loc = probe.other.loc
         /\ calculate_time_urgency(probe.target, answer.clock)
              = calculate_time_urgency(probe.other, answer.clock2)
         /\ probe.target.priority # probe.other.priority )
       => answer.chosen = (IF probe.target.priority > probe.other.priority
                           THEN probe.target ELSE probe.other)

\* the candidate listed second, of higher priority and later window start but
\* of the same urgency term, was selected
C12_Witness ==
    /\ answer.op = "select_next"
    /\ probe.target.loc = probe.other.loc
    /\ probe.target.window_start < probe.other.window_start
    /\ calculate_time_urgency(probe.target, answer.clock)
         = calculate_time_urgency(probe.other, answer.clock2)
    /\ probe.target.priority < probe.other.priority
    /\ answer.chosen = probe.other

\* C13: the weather impact is 0.1, plus 0.3 above the mountain threshold, plus
\* 0.4 for snow or 0.2 for rain and nothing for another condition, capped at
\* 1.0; it is within [0, 1] and the weather score 50 * (1 - impact) within
\* [0, 50].
C13_WeatherImpact ==
    answer.op = "weather_impact" =>
        LET mountain == IF probe.target.loc \in Mountainous THEN 3 ELSE 0
            condition == CASE probe.weather.condition = "snow" -> 4
                           [] probe.weather.condition = "rain" -> 2
                           [] OTHER -> 0
            sum == 1 + mountain + condition
        IN  /\ answer.val = (IF sum > 10 THEN 10 ELSE sum)
            /\ answer.val \in 0..10
            /\ 5000 * (10 - answer.val) \in 0..50000

\* the impact of snow on a mountainous place: 0.8
C13_Witness ==
    /\ answer.op = "weather_impact"
    /\ probe.target.loc \in Mountainous
    /\ probe.weather.condition = "snow"
    /\ answer.val = 8

\* C14: the urgency term is 30 when the window starts at most 2 hours after
\* the clock reading, windows already started included, 15 when it starts more
\* than 2 and at most 4 hours after, and 5 otherwise; an earlier window start
\* never lowers the term.
C14_UrgencyBands ==
    answer.op = "time_urgency" =>
        LET ahead == probe.target.window_start - answer.clock
        IN  /\ ahead <= 2 => answer.val = 30
            /\ (ahead > 2 /\ ahead <= 4) => answer.val = 15
            /\ ahead > 4 => answer.val = 5
            /\ \A ws \in ProbeWindowStarts :
                  ws <= probe.target.window_start =>
                    calculate_time_urgency(
                        [probe.target EXCEPT !.window_start = ws],
                        answer.clock) >= answer.val

\* a window that had started when the clock was read got 30
C14_Witness ==
    /\ answer.op = "time_urgency"
    /\ probe.target.window_start < answer.clock
    /\ answer.val = 30

\* a window starting exactly 4 hours after the clock reading got 15
C14_WitnessSoon ==
    /\ answer.op = "time_urgency"
    /\ probe.target.window_start - answer.clock = 4
    /\ answer.val = 15

\* a report was made of the route the call returned
Reported == report.made /\ ~report.raised

\* C15: the report's stop count is the route length minus 2 for a non-empty
\* route that starts and ends at the depot, and 0 for the empty route.
C15_StopCount ==
    Reported =>
        report.pharmacy_count = (IF result = <<>> THEN 0 ELSE Len(result) - 2)

\* the sums of the reported distances (hundredths of a km) and of the reported
\* durations (minutes) of the first n segments
RECURSIVE SumDistance(_, _)
SumDistance(segments, n) ==
    IF n = 0 THEN 0
    ELSE SumDistance(segments, n - 1) + segments[n].distance_km

RECURSIVE SumDuration(_, _)
SumDuration(segments, n) ==
    IF n = 0 THEN 0
    ELSE SumDuration(segments, n - 1) + segments[n].estimated_duration_min

\* the report has one segment for each consecutive pair of the route, in
\* route order, of road class 'paved_road', and nothing in it is negative
SegmentsFollowRoute ==
    /\ Len(report.segments) = Len(result) - 1
    /\ \A i \in 1..(Len(result) - 1) :
         /\ report.segments[i].start_pharmacy = result[i]
         /\ report.segments[i].end_pharmacy = result[i + 1]
         /\ report.segments[i].road_conditions = "paved_road"
         /\ report.segments[i].distance_km >= 0
         /\ report.segments[i].estimated_duration_min >= 0
    /\ report.total_distance_km >= 0
    /\ report.total_duration_min >= 0
    /\ report.estimated_fuel_consumption >= 0

CutDuration(minutes, km) ==
    /\ 1000 * minutes <= 12 * km + 6
    /\ 12 * km - 6 < 1000 * (minutes + 1)

FailedFast ==
    /\ pc = "raised"
    /\ candidates = <<>>
    /\ scores = <<>>
    /\ urgency_seen = {}
    /\ route = <<>>
    /\ result = <<>>

\* C17: a call whose input has a point with a latitude outside [-90, 90] or a
\* longitude outside [-180, 180] fails before any candidate is scored and
\* produces no partial route.
C17_BadCoordinateRejected ==
    (pc # "idle" /\ \E i \in 1..Len(given) : given[i].loc \in InvalidLocs)
        => FailedFast

\* C18: a call whose input has a point with a priority outside [1, 10] fails
\* instead of clamping or using the value.
C18_BadPriorityRejected ==
    (pc # "idle" /\ \E i \in 1..Len(given) : given[i].priority \notin 10..100)
        => FailedFast

\* C20: two calls of optimize_delivery_route running concurrently on one
\* optimizer share no mutable state: road_conditions_weights stays as __init__
\* set it, and under every interleaving a call returns a route that it returns
\* when it runs alone from the clock reading it started with.
C20_ConcurrentCallsIndependent ==
    /\ road_conditions_weights = RoadConditionsWeights
    /\ pc = "returned" =>
         result \in optimize_delivery_route(given, current_weather, first_clock)
    /\ (other # NoThread /\ other.pc = "returned") =>
         other.result \in optimize_delivery_route(other.given,
                                                  other.current_weather,
                                                  other.first_clock)

\* a call of two pharmacies has returned while the other thread's call, which
\* started earlier, is in its loop with one pharmacy chosen
C20_Witness ==
    /\ other # NoThread
    /\ pc = "returned"
    /\ Len(result) = 4
    /\ other.pc = "select"
    /\ Len(other.route) = 2
    /\ other.first_clock < first_clock

\* C21: calculate_distance gives the same value in both directions, 0 for
\* two identical points, and a value that is not negative for every pair of
\* valid coordinates, the poles and the antimeridian included.
C21_DistanceSymmetric ==
    answer.op = "distance" =>
        /\ answer.kind = "num"
        /\ answer.val >= 0
        /\ probe.current.loc = probe.target.loc => answer.val = 0
        /\ calculate_distance(probe.target.loc, probe.current.loc)
             = Num(answer.val)

\* C22: _check_temperature_compliance returns 'normal' exactly when
\* min <= t <= max, 'warning' exactly when critical_min <= t < min or
\* max < t <= critical_max, and 'critical' in every other case: each
\* temperature gets exactly one of the three statuses.
C22_ComplianceBands ==
    answer.op = "check_temperature_compliance" =>
        LET t == probe.temperature
            r == probe.temp_range
            inside == r.min <= t /\ t <= r.max
            margin == \/ (r.critical_min <= t /\ t < r.min)
                      \/ (r.max < t /\ t <= r.critical_max)
        IN  /\ answer.status \in {"normal", "warning", "critical"}
            /\ answer.status = "normal" <=> inside
            /\ answer.status = "warning" <=> margin
            /\ answer.status = "critical" <=> (~inside /\ ~margin)

\* a temperature exactly at the upper critical limit got 'warning'
C22_Witness ==
    /\ answer.op = "check_temperature_compliance"
    /\ probe.temperature = probe.temp_range.critical_max
    /\ answer.status = "warning"

\* a temperature just below the lower critical limit got 'critical'
C22_WitnessCritical ==
    /\ answer.op = "check_temperature_compliance"
    /\ probe.temperature = probe.temp_range.critical_min - 1
    /\ answer.status = "critical"

\* C23: process_sensor_reading classifies a 'biologics' reading at -12.0
\* degrees as 'critical' and records an alert for it.
C23_BiologicsCritical ==
    ( /\ reading_result.kind = "returned"
      /\ reading_result.sensor_data.medication_type = "biologics"
      /\ reading_result.sensor_data.temperature = -120 )
    => /\ reading_result.status = "critical"
       /\ alert_history # <<>>
       /\ alert_history[Len(alert_history)].status = "critical"
       /\ alert_history[Len(alert_history)].current_temperature = -120

\* a status for which an alert is due
IsAlertStatus(status) == status \in {"warning", "critical"}

\* C24: after any sequence of successful process_sensor_reading calls,
\* alert_history has one alert for each processed reading whose status was
\* 'warning' or 'critical', in order, of priority 'high' for a critical and
\* 'medium' for a warning one; a 'normal' reading adds none.
C24_OneAlertPerViolation ==
    LET flagged == SelectSeq(processed, IsAlertStatus)
    IN  /\ Len(alert_history) = Len(flagged)
        /\ \A k \in 1..Len(flagged) :
             /\ alert_history[k].status = flagged[k]
             /\ alert_history[k].priority =
                  (IF flagged[k] = "critical" THEN "high" ELSE "medium")

\* a normal, then a warning reading were processed: one alert, 'medium'
C24_Witness ==
    /\ processed = <<"normal", "warning">>
    /\ Len(alert_history) = 1
    /\ alert_history[1].priority = "medium"

\* a critical reading was processed: its alert is 'high'
C24_WitnessCritical ==
    /\ Len(processed) = 2
    /\ processed[2] = "critical"
    /\ alert_history[Len(alert_history)].priority = "high"

\* what a result of get_temperature_stats must be for the stored readings
StatsAgree(st, readings) ==
    LET window == {id \in SensorIds :
                     readings[id].stored /\ readings[id].timestamp >= st.at - st.hours}
        normal == Cardinality({id \in window : readings[id].status = "normal"})
    IN  IF window = {} THEN st.empty
        ELSE /\ ~st.empty
             /\ st.total_readings = Cardinality(window)
             /\ st.critical_alerts + st.warning_alerts + normal = st.total_readings
             /\ st.compliance_rate = (100000 * normal) \div st.total_readings

\* C25: get_temperature_stats(hours) returns {} when no stored reading lies
\* within the last hours; otherwise total_readings is the number of stored
\* readings in that window, critical_alerts + warning_alerts + the number of
\* 'normal' readings is total_readings, and compliance_rate is
\* 100 * normal / total_readings.
C25_StatsOverWindow ==
    [][stats' # stats => StatsAgree(stats', sensor_readings)]_vars

\* {} was returned although a reading is stored: it is older than the window
C25_Witness ==
    /\ stats.made
    /\ stats.empty
    /\ \E id \in SensorIds : sensor_readings[id].stored

\* statistics over two readings, one of them normal: 50 percent
C25_WitnessHalf ==
    /\ stats.made
    /\ ~stats.empty
    /\ stats.total_readings = 2
    /\ stats.compliance_rate = 50000

\* C27: a process_sensor_reading call whose sensor_data lacks 'temperature'
\* or 'sensor_id' raises and leaves sensor_readings and alert_history as they
\* were before the call.
C27_MissingKeyLeavesState ==
    [][( /\ reading_result'.seq # reading_result.seq
         /\ \/ ~reading_result'.sensor_data.has_temperature
            \/ ~reading_result'.sensor_data.has_sensor_id )
       => /\ reading_result'.kind = "raise"
          /\ sensor_readings' = sensor_readings
          /\ alert_history' = alert_history]_vars

\* a call without 'sensor_id' raised on a monitor that holds a reading and
\* an alert
C27_Witness ==
    /\ reading_result.kind = "raise"
    /\ ~reading_result.sensor_data.has_sensor_id
    /\ alert_history # <<>>
    /\ \E id \in SensorIds : sensor_readings[id].stored

\* C26: optimize_delivery_route terminates: an iteration of the selection loop
\* (lines 96-108) takes exactly one element out of unvisited or leaves the
\* loop, it is at most the n-th iteration for n input pharmacies, and the
\* call returns.
LoopBodyEnds == pc = "select" /\ idx > Len(unvisited)
C26_Terminates ==
    /\ [][LoopBodyEnds =>
            /\ \/ /\ Len(unvisited') = Len(unvisited) - 1
                  /\ Len(route') = Len(route) + 1
               \/ /\ pc' = "finish"
                  /\ unvisited' = unvisited
            /\ pc' = "select" => unvisited' # <<>>
            /\ Len(route) <= Len(pharmacies)]_vars
    /\ <>(pc = "returned")
C26_Witness ==
    /\ pc = "returned"
    /\ Len(pharmacies) = MaxPharmacies
    /\ Len(result) = Len(pharmacies) + 2

\* C28: batch_generate_documents does not raise because of a failing item:
\* it returns, in input order, exactly the documents of the items whose
\* generate_document call succeeds, whatever comes before them.
ItemSucceeds(doc_data) == ItemOutcome(doc_data).kind = "returned"
DocumentsOf(items) == [k \in 1..Len(items) |-> ItemOutcome(items[k]).value]
C28_BatchSkipsFailures ==
    batch_outcome.kind # "none" =>
        /\ batch_outcome.kind = "returned"
        /\ batch_outcome.value = DocumentsOf(SelectSeq(batch_data, ItemSucceeds))
        /\ \A k \in 1..Len(batch_outcome.value) :
               batch_outcome.value[k].status = "generated"
C28_Witness ==
    /\ batch_outcome.kind = "returned"
    /\ Len(batch_data) = 2
    /\ ~ItemSucceeds(batch_data[1])
    /\ ItemSucceeds(batch_data[2])
    /\ Len(batch_outcome.value) = 1
    /\ batch_outcome.value[1].document_type = batch_data[2].document_type

\* C29: in every result of validate_shipment_compliance, is_compliant is true
\* exactly when validation_errors is empty, and a result whose
\* temperature_compliance is false has is_compliant false.
C29_CompliantIffNoErrors ==
    (engine_call.op = "validate_shipment_compliance"
     /\ engine_result.kind = "returned") =>
        /\ engine_result.value.is_compliant
               <=> (engine_result.value.validation_errors = <<>>)
        /\ ~engine_result.value.temperature_compliance
               => ~engine_result.value.is_compliant
\* a shipment with a medication that expires within 30 days and passes
C29_Witness ==
    /\ engine_call.op = "validate_shipment_compliance"
    /\ engine_result.kind = "returned"
    /\ \E i \in 1..Len(engine_call.medications) :
           /\ engine_call.medications[i].expiry_days > 0
           /\ engine_call.medications[i].expiry_days <= 30
    /\ engine_result.value.is_compliant
    /\ engine_result.value.validation_errors = <<>>
\* a shipment that fails the temperature check
C29_WitnessTemperature ==
    /\ engine_call.op = "validate_shipment_compliance"
    /\ engine_result.kind = "returned"
    /\ ~engine_result.value.temperature_compliance
    /\ ~engine_result.value.is_compliant
    /\ engine_result.value.validation_errors # <<>>

\* C30: generate_compliance_document returns a document with status
\* 'generated' and the requested type for each of the four supported types,
\* and raises ValueError for every other type.
SupportedTypes ==
    {"certificate_of_analysis", "customs_declaration", "health_certificate",
     "temperature_log"}
C30_FourTypesGenerated ==
    engine_call.op = "generate_compliance_document" =>
        IF engine_call.document_type \in SupportedTypes
        THEN /\ engine_result.kind = "returned"
             /\ engine_result.value.status = "generated"
             /\ engine_result.value.document_type = engine_call.document_type
        ELSE engine_result = Raised("ValueError")
\* what the code does instead for two of the four types
C30_TwoTypesRaiseNameError ==
    (engine_call.op = "generate_compliance_document"
     /\ engine_call.document_type \in {"health_certificate", "temperature_log"})
        => engine_result = Raised("NameError")
C30_Witness ==
    /\ engine_call.op = "generate_compliance_document"
    /\ engine_call.document_type = "health_certificate"
    /\ engine_result = Raised("NameError")

====
